---- MODULE Spec2Model ----
(***************************************************************************)
(* Antigravity OAuth session manager (src/services/antigravity/login.ts)   *)
(* and the auth routes in front of it (src/routes/auth/route.ts).          *)
(*                                                                         *)
(* JavaScript values are modelled as follows: an optional object (the      *)
(* active session, a session's callback, a suspended call's locals) is a   *)
(* sequence, <<>> for null/undefined and <<v>> for the value; an optional  *)
(* string is UNDEFINED (undefined or null), EMPTY ("") or the string.      *)
(* Every `await` of an upstream call is a suspension point: the call's     *)
(* locals are parked in a slot and a later action resumes it.  Code that   *)
(* runs between two suspension points is one action.  The completion      *)
(* protocol awaits exchangeCode, fetchUserInfo and getProjectID in a row   *)
(* and touches no shared state in between, so the three waits are one      *)
(* suspension, left by the first call that throws or by the third         *)
(* resolving.                                                              *)
(***************************************************************************)
EXTENDS Integers, Sequences, FiniteSets, TLC

\* ---------------------------------------------------------------- bounds
\* callback servers (hence sessions) ever started
MaxSessions == 2
\* calls suspended at an await at the same time
MaxCalls == 2

\* ------------------------------------------------------------- JS values
UNDEFINED == "<undefined>"
EMPTY == ""
\* JavaScript truthiness of an optional string (!!x)
Truthy(x) == x \notin {UNDEFINED, EMPTY}
\* a || b on optional strings
OrElse(a, b) == IF Truthy(a) THEN a ELSE b

\* `expiresAt: Date.now() + 5 * 60 * 1000`, in milliseconds
SESSION_TTL == 5 * 60 * 1000

NO_ACTIVE_SESSION == "No active Antigravity OAuth session"
AUTH_TIMEOUT == "Authentication timeout (5 minutes)"
MISSING_CODE_OR_STATE == "Missing code or state in callback"
STATE_MISMATCH == "State mismatch - possible CSRF attack"
AUTH_FAILED == "Antigravity authentication failed"
REMOVED_MESSAGE == "Credential bundle export/import has been removed."

\* generateState(): a fresh unpredictable token per call; the n-th call's
\* token, distinct from every other call's.
StateTokens == <<"st-1", "st-2", "st-3", "st-4", "st-5", "st-6">>
generateState(n) == StateTokens[n]
\* a state value that generateState never produced
FORGED == "st-forged"

\* redirectUri = `http://localhost:${port}/oauth-callback`; the n-th server
\* is bound to its own port.
RedirectUri(port) == <<"http://localhost", port, "/oauth-callback">>
\* generateAuthURL(redirectUri, state)
generateAuthURL(redirectUri, oauthState) ==
    [redirect_uri |-> redirectUri, state |-> oauthState]

VARIABLES
    activeAntigravityOAuthSession, \* <<>> or <<AntigravityOAuthSession>>
    listening,                     \* callback servers started and not stopped
    created,                       \* callback servers started so far
    waiting,                       \* sessions whose waitForCallback() is unsettled
    starts,                        \* start calls suspended in startOAuthCallbackServer
    polls,                         \* session number -> polls of it suspended in completion
    state,                         \* process credential state (~/lib/state)
    authFile,                      \* <<>> or <<AuthData>>: contents of auth.json
    now,                           \* Date.now()
    ret,                           \* what the last returning call returned
    accountsByProvider,            \* provider -> its accounts, in insertion order
    dynamicModels,                 \* provider -> the cached dynamic model list
    syncedWithAccountIds,          \* remote model-list calls of the last getConfig
    oauthLogin,                    \* <<>> or <<the locals of the startOAuthLogin call>>
    accountManager,                \* the antigravity accounts, in insertion order
    refreshCall                    \* <<>> or <<the locals of the refreshToken call>>

vars == <<activeAntigravityOAuthSession, listening, created, waiting, starts,
          polls, state, authFile, now, ret,
          accountsByProvider, dynamicModels, syncedWithAccountIds, oauthLogin,
          accountManager, refreshCall>>

\* the state of the routing layer
routing == <<accountsByProvider, dynamicModels, syncedWithAccountIds>>

\* the account manager and the refreshToken call
aside == <<accountManager, refreshCall>>

\* what the session manager never touches
outside == <<routing, oauthLogin, aside>>

Provider == {"antigravity", "codex", "copilot"}

session == activeAntigravityOAuthSession[1]
HasSession == activeAntigravityOAuthSession # <<>>

\* the descriptor startAntigravityOAuthSession returns
Descriptor(s) ==
    [state |-> s.state, authUrl |-> s.authUrl,
     redirectUri |-> s.redirectUri, expiresAt |-> s.expiresAt]

\* what the call that returned in the step just taken returned: `result` is
\* the status of a poll, the boolean of a cancel, "session" or "throw" for a
\* start; `status` is the HTTP status of a route's response (0 for a plain
\* call) and `value` the returned object
Return(op, result, message, email, value) ==
    [op |-> op, result |-> result, message |-> message, email |-> email,
     status |-> 0, value |-> value]
\* no call returned in the step just taken
NoReturn == Return("none", "none", UNDEFINED, UNDEFINED, <<>>)

\* ---------------------------------------------------------------- domains
\* what the callback server can deliver for the session whose state is s
CallbackResults(s) ==
    [code : {UNDEFINED, "code-1"},
     state : {UNDEFINED, s, FORGED},
     error : {UNDEFINED, "access_denied"}]
        \cup {[code |-> "code-1", state |-> s, error |-> EMPTY]}

\* exchangeCode results
TokenResponses ==
    {[accessToken |-> "at-1", refreshToken |-> "rt-1", expiresIn |-> 3600]}
\* fetchUserInfo results: the email, or a response without one
UserEmails == {"alice@example.com", UNDEFINED}
\* getProjectID results
ProjectIds == {"project-1", UNDEFINED}
\* what a failing upstream call throws
UpstreamErrors == {"upstream call failed"}
\* generateMockProjectId()
MOCK_PROJECT == "mock-project"
\* email.split("@")[0]
LocalPart(email) ==
    CASE email = "alice@example.com" -> "alice"
      [] email = "bob@example.com" -> "bob"
      [] OTHER -> EMPTY

NullState ==
    [accessToken |-> UNDEFINED, antigravityToken |-> UNDEFINED,
     refreshToken |-> UNDEFINED, tokenExpiresAt |-> <<>>,
     userEmail |-> UNDEFINED, userName |-> UNDEFINED,
     cloudaicompanionProject |-> UNDEFINED]

\* ------------------------------------------------------------------ Init
Init ==
    /\ activeAntigravityOAuthSession = <<>>
    /\ listening = {}
    /\ created = 0
    /\ waiting = {}
    /\ starts = 0
    /\ polls = [n \in 1..MaxSessions |-> 0]
    /\ state = NullState
    /\ authFile = <<>>
    /\ now = 0
    /\ ret = NoReturn
    /\ accountsByProvider = [p \in Provider |-> <<>>]
    /\ dynamicModels = [p \in Provider |-> <<>>]
    /\ syncedWithAccountIds = <<>>
    /\ oauthLogin = <<>>
    /\ accountManager = <<>>
    /\ refreshCall = <<>>

\* ------------------------------------------------- session bookkeeping
\* stopAntigravityOAuthSession(): stop the active session's server (an
\* exception from stop() is swallowed) and empty the slot
stopAntigravityOAuthSession ==
    /\ listening' = IF HasSession THEN listening \ {session.server} ELSE listening
    /\ activeAntigravityOAuthSession' = <<>>

\* saveAuth(): the AuthData record written to auth.json
saveAuth(st) ==
    [accessToken |-> st.accessToken,
     refreshToken |-> OrElse(st.refreshToken, EMPTY),
     expiresAt |-> st.tokenExpiresAt,
     userEmail |-> OrElse(st.userEmail, UNDEFINED),
     userName |-> OrElse(st.userName, UNDEFINED),
     projectId |-> OrElse(st.cloudaicompanionProject, UNDEFINED)]

\* (mutant) the state comparison made before the presence check
CallbackError_mismatchFirst(callbackResult, oauthState) ==
    IF Truthy(callbackResult.error) THEN callbackResult.error
    ELSE IF callbackResult.state # oauthState THEN STATE_MISMATCH
    ELSE IF ~Truthy(callbackResult.code) \/ ~Truthy(callbackResult.state)
        THEN MISSING_CODE_OR_STATE
    ELSE UNDEFINED

\* the validation that opens completeOAuthCallbackLogin, before its first
\* await: the error it returns, or UNDEFINED when the callback is accepted
CallbackError(callbackResult, oauthState) ==
    IF Truthy(callbackResult.error) THEN callbackResult.error
    ELSE IF ~Truthy(callbackResult.code) \/ ~Truthy(callbackResult.state)
        THEN MISSING_CODE_OR_STATE
    ELSE IF callbackResult.state # oauthState THEN STATE_MISMATCH
    ELSE UNDEFINED

\* the state tokens a client can present: those issued so far, or a forgery
Presentable == {generateState(i) : i \in 1..created} \cup {FORGED}

\* polls suspended in the completion protocol
RECURSIVE Suspended(_)
Suspended(n) == IF n = 0 THEN 0 ELSE polls[n] + Suspended(n - 1)

\* --------------------------------------------- startAntigravityOAuthSession
\* (mutant) the expiry comparison inverted: a live session is replaced
startAntigravityOAuthSession_expiryInverted ==
    IF HasSession /\ now > activeAntigravityOAuthSession[1].expiresAt
    THEN /\ ret' = Return("start", "session", UNDEFINED, UNDEFINED,
                          <<Descriptor(activeAntigravityOAuthSession[1])>>)
         /\ UNCHANGED <<activeAntigravityOAuthSession, listening, created,
                        waiting, starts, polls, state, authFile, now>>
    ELSE /\ created + starts < MaxSessions
         /\ listening' = IF HasSession
                THEN listening \ {activeAntigravityOAuthSession[1].server}
                ELSE listening
         /\ activeAntigravityOAuthSession' = <<>>
         /\ starts' = starts + 1
         /\ ret' = NoReturn
         /\ UNCHANGED <<created, waiting, polls, state, authFile, now>>

\* the call up to its return (a live session exists) or up to
\* `await startOAuthCallbackServer()`
startAntigravityOAuthSession ==
    IF HasSession /\ now < session.expiresAt
    THEN /\ ret' = Return("start", "session", UNDEFINED, UNDEFINED,
                          <<Descriptor(session)>>)
         /\ UNCHANGED <<activeAntigravityOAuthSession, listening, created,
                        waiting, starts, polls, state, authFile, now>>
    ELSE /\ created + starts < MaxSessions
         /\ starts + Suspended(MaxSessions) < MaxCalls
         /\ stopAntigravityOAuthSession
         /\ starts' = starts + 1
         /\ ret' = NoReturn
         /\ UNCHANGED <<created, waiting, polls, state, authFile, now>>

\* the session object built once the callback server is up
NewSession(n, t) ==
    [state |-> generateState(n),
     authUrl |-> generateAuthURL(RedirectUri(n), generateState(n)),
     redirectUri |-> RedirectUri(n),
     expiresAt |-> t + SESSION_TTL,
     server |-> n,
     callback |-> <<>>]

\* startOAuthCallbackServer() resolved: the rest of the call
startAntigravityOAuthSession_resume ==
    /\ starts > 0
    /\ starts' = starts - 1
    /\ created' = created + 1
    /\ listening' = listening \cup {created + 1}
    /\ activeAntigravityOAuthSession' = <<NewSession(created + 1, now)>>
    /\ waiting' = waiting \cup {generateState(created + 1)}
    /\ ret' = Return("start", "session", UNDEFINED, UNDEFINED,
                     <<Descriptor(NewSession(created + 1, now))>>)
    /\ UNCHANGED <<polls, state, authFile, now>>

\* startOAuthCallbackServer() rejected: the call throws to its caller
startAntigravityOAuthSession_throw ==
    /\ starts > 0
    /\ starts' = starts - 1
    /\ ret' = Return("start", "throw", "listen failed", UNDEFINED, <<>>)
    /\ UNCHANGED <<activeAntigravityOAuthSession, listening, created, waiting,
                   polls, state, authFile, now>>

\* the .then/.catch handlers on waitForCallback() of the session whose
\* state is oauthState: store the result only while that session is active
\* (mutant) the handlers without the comparison with the current state
waitForCallback_settled_unchecked(oauthState, result) ==
    /\ oauthState \in waiting
    /\ waiting' = waiting \ {oauthState}
    /\ activeAntigravityOAuthSession' =
         IF ~HasSession
         THEN activeAntigravityOAuthSession
         ELSE <<[session EXCEPT !.callback = <<result>>]>>
    /\ ret' = NoReturn
    /\ UNCHANGED <<listening, created, starts, polls, state, authFile, now>>

waitForCallback_settled(oauthState, result) ==
    /\ oauthState \in waiting
    /\ waiting' = waiting \ {oauthState}
    /\ activeAntigravityOAuthSession' =
         IF ~HasSession \/ session.state # oauthState
         THEN activeAntigravityOAuthSession
         ELSE <<[session EXCEPT !.callback = <<result>>]>>
    /\ ret' = NoReturn
    /\ UNCHANGED <<listening, created, starts, polls, state, authFile, now>>

\* waitForCallback() resolves with a callback, or rejects with an error
\* that the .catch handler turns into {error: message}
Settlements(oauthState) ==
    CallbackResults(oauthState)
        \cup {[code |-> UNDEFINED, state |-> UNDEFINED, error |-> "listener failed"]}

\* ---------------------------------------------- pollAntigravityOAuthSession
PollReturn(result, message, email) ==
    ret' = Return("poll", result, message, email, <<>>)

\* (mutant) the state comparison forgotten
Matches_anySession(oauthState) == HasSession

\* line 180: the presented state is the active session's
Matches(oauthState) == HasSession /\ session.state = oauthState

\* lines 180-182: no session carries the presented state
poll_noSession ==
    /\ PollReturn("error", NO_ACTIVE_SESSION, UNDEFINED)
    /\ UNCHANGED <<activeAntigravityOAuthSession, listening, created, waiting,
                   starts, polls, state, authFile, now>>

\* (mutant) the timeout reported without tearing the session down
poll_timeout_noTeardown ==
    /\ ret' = Return("poll", "error", AUTH_TIMEOUT, UNDEFINED, <<>>)
    /\ UNCHANGED <<activeAntigravityOAuthSession, listening, created, waiting,
                   starts, polls, state, authFile, now>>

\* lines 184-187: the session has expired
poll_timeout ==
    /\ stopAntigravityOAuthSession
    /\ PollReturn("error", AUTH_TIMEOUT, UNDEFINED)
    /\ UNCHANGED <<created, waiting, starts, polls, state, authFile, now>>

\* lines 189-191: no callback yet
poll_pending ==
    /\ PollReturn("pending", UNDEFINED, UNDEFINED)
    /\ UNCHANGED <<activeAntigravityOAuthSession, listening, created, waiting,
                   starts, polls, state, authFile, now>>

\* lines 194-198: completeOAuthCallbackLogin returned {success: false, error}
poll_loginFailed(error) ==
    /\ stopAntigravityOAuthSession
    /\ PollReturn("error", OrElse(error, AUTH_FAILED), UNDEFINED)
    /\ UNCHANGED <<created, waiting, starts, polls, state, authFile, now>>

\* line 194 into line 103: the callback is accepted and the poll waits on
\* the upstream calls
poll_awaitUpstream ==
    /\ starts + Suspended(MaxSessions) < MaxCalls
    /\ polls' = [polls EXCEPT ![session.server] = @ + 1]
    /\ ret' = NoReturn
    /\ UNCHANGED <<activeAntigravityOAuthSession, listening, created, waiting,
                   starts, state, authFile, now>>

\* the call up to its return or up to `await exchangeCode(...)`
pollAntigravityOAuthSession(oauthState) ==
    IF ~Matches(oauthState) THEN poll_noSession
    ELSE IF now > session.expiresAt THEN poll_timeout
    ELSE IF session.callback = <<>> THEN poll_pending
    ELSE IF CallbackError(session.callback[1], session.state) # UNDEFINED
        THEN poll_loginFailed(CallbackError(session.callback[1], session.state))
    ELSE poll_awaitUpstream

\* exchangeCode, fetchUserInfo or getProjectID threw in a poll of session n:
\* the catch block of poll
poll_catch(n, message) ==
    /\ polls[n] > 0
    /\ polls' = [polls EXCEPT ![n] = @ - 1]
    /\ stopAntigravityOAuthSession
    /\ PollReturn("error", message, UNDEFINED)
    /\ UNCHANGED <<created, waiting, starts, state, authFile, now>>

\* (mutant) the project id stored as the provider returned it
LoggedIn_noPlaceholder(tokens, email, projectId, t) ==
    [accessToken |-> tokens.accessToken,
     antigravityToken |-> tokens.accessToken,
     refreshToken |-> tokens.refreshToken,
     tokenExpiresAt |-> <<t + tokens.expiresIn * 1000>>,
     userEmail |-> email,
     userName |-> LocalPart(email),
     cloudaicompanionProject |-> projectId]

\* the credential state after lines 111-117 ran to the end
LoggedIn(tokens, email, projectId, t) ==
    [accessToken |-> tokens.accessToken,
     antigravityToken |-> tokens.accessToken,
     refreshToken |-> tokens.refreshToken,
     tokenExpiresAt |-> <<t + tokens.expiresIn * 1000>>,
     userEmail |-> email,
     userName |-> LocalPart(email),
     cloudaicompanionProject |-> OrElse(projectId, MOCK_PROJECT)]

\* the credential state when userInfo.email.split throws on line 116
LoginInterrupted(st, tokens, t) ==
    [st EXCEPT !.accessToken = tokens.accessToken,
               !.antigravityToken = tokens.accessToken,
               !.refreshToken = tokens.refreshToken,
               !.tokenExpiresAt = <<t + tokens.expiresIn * 1000>>,
               !.userEmail = UNDEFINED]

\* getProjectID resolved in a poll of session n: the state writes, saveAuth,
\* and the rest of poll; tokens, email and projectId are what the three
\* upstream calls returned
getProjectID_resolved(n, tokens, email, projectId) ==
    /\ polls[n] > 0
    /\ polls' = [polls EXCEPT ![n] = @ - 1]
    /\ stopAntigravityOAuthSession
    /\ IF email = UNDEFINED
       THEN /\ state' = LoginInterrupted(state, tokens, now)
            /\ authFile' = authFile
            /\ PollReturn("error", "TypeError", UNDEFINED)
       ELSE /\ state' = LoggedIn(tokens, email, projectId, now)
            /\ authFile' = <<saveAuth(state')>>
            /\ PollReturn("success", UNDEFINED, email)
    /\ UNCHANGED <<created, waiting, starts, now>>

\* -------------------------------------------- cancelAntigravityOAuthSession
\* oauthState is c.req.query("state"): absent, empty, or any string
cancelAntigravityOAuthSession(oauthState) ==
    IF ~HasSession
    THEN /\ ret' = Return("cancel", "false", UNDEFINED, UNDEFINED, <<>>)
         /\ UNCHANGED <<activeAntigravityOAuthSession, listening, created,
                        waiting, starts, polls, state, authFile, now>>
    ELSE IF Truthy(oauthState) /\ session.state # oauthState
    THEN /\ ret' = Return("cancel", "false", UNDEFINED, UNDEFINED, <<>>)
         /\ UNCHANGED <<activeAntigravityOAuthSession, listening, created,
                        waiting, starts, polls, state, authFile, now>>
    ELSE /\ stopAntigravityOAuthSession
         /\ ret' = Return("cancel", "true", UNDEFINED, UNDEFINED, <<>>)
         /\ UNCHANGED <<created, waiting, starts, polls, state, authFile, now>>

\* ------------------------------------------------------------------ clock
\* the instants the clock is observed at: the start, one session lifetime
\* later, and the millisecond after that
Instants == {0, SESSION_TTL, SESSION_TTL + 1}

\* Date.now() advances to a later instant
Tick(t) ==
    /\ t > now
    /\ now' = t
    /\ ret' = NoReturn
    /\ UNCHANGED <<activeAntigravityOAuthSession, listening, created, waiting,
                   starts, polls, state, authFile>>

Next ==
    \/ startAntigravityOAuthSession /\ UNCHANGED outside
    \/ startAntigravityOAuthSession_resume /\ UNCHANGED outside
    \/ startAntigravityOAuthSession_throw /\ UNCHANGED outside
    \/ \E s \in waiting : \E r \in Settlements(s) :
         waitForCallback_settled(s, r) /\ UNCHANGED outside
    \/ \E s \in Presentable :
         pollAntigravityOAuthSession(s) /\ UNCHANGED outside
    \/ \E n \in 1..MaxSessions : \E m \in UpstreamErrors :
         poll_catch(n, m) /\ UNCHANGED outside
    \/ \E n \in 1..MaxSessions : \E t \in TokenResponses, e \in UserEmails, j \in ProjectIds :
         getProjectID_resolved(n, t, e, j) /\ UNCHANGED outside
    \/ \E s \in Presentable \cup {UNDEFINED, EMPTY} :
         cancelAntigravityOAuthSession(s) /\ UNCHANGED outside
    \/ \E t \in Instants : Tick(t) /\ UNCHANGED outside

Spec == Init /\ [][Next]_vars

\* the program state a session operation can touch, `ret` apart
program == <<activeAntigravityOAuthSession, listening, created, waiting, starts,
             polls, state, authFile, now>>

\* what the routes outside the login flows never touch
untouched == <<program, oauthLogin, aside>>

\* ------------------------------------------- removed credential endpoints
\* c.json(body, status)
Response(route, status, body) ==
    [op |-> route, result |-> "response", message |-> UNDEFINED,
     email |-> UNDEFINED, status |-> status, value |-> <<body>>]

GONE == 410

RemovedBody == [success |-> FALSE, error |-> REMOVED_MESSAGE]

\* request bodies a client may send: none, an empty object, a bundle
Payloads == {UNDEFINED, "{}", "{accounts: []}"}

\* (mutant) the export handler answers 200
authExport_ok ==
    /\ ret' = Response("GET /auth/export", 200, RemovedBody)
    /\ UNCHANGED untouched
    /\ UNCHANGED routing

\* authRouter.get("/export")
authExport ==
    /\ ret' = Response("GET /auth/export", GONE, RemovedBody)
    /\ UNCHANGED untouched
    /\ UNCHANGED routing

\* authRouter.post("/import"): the body is never read
authImport(payload) ==
    /\ ret' = Response("POST /auth/import", GONE, RemovedBody)
    /\ UNCHANGED untouched
    /\ UNCHANGED routing

\* GET /bundle/export
bundleExport ==
    /\ ret' = Response("GET /bundle/export", GONE, RemovedBody)
    /\ UNCHANGED untouched
    /\ UNCHANGED routing

\* POST /bundle/import
bundleImport(payload) ==
    /\ ret' = Response("POST /bundle/import", GONE, RemovedBody)
    /\ UNCHANGED untouched
    /\ UNCHANGED routing

NextRemoved ==
    \/ Next
    \/ authExport
    \/ \E payload \in Payloads : authImport(payload)
    \/ bundleExport
    \/ \E payload \in Payloads : bundleImport(payload)

\* the session manager together with the removed endpoints
SpecRemoved == Init /\ [][NextRemoved]_vars

\* ------------------------------------------------ routing configuration
MaxAccounts == 2

\* the account ids of a provider (an antigravity account's id is its email)
AccountIds(provider) ==
    CASE provider = "copilot" -> {"older-account", "newer-account", "copilot-1"}
      [] provider = "codex" -> {"codex-1"}
      [] OTHER -> {"alice@example.com"}

\* the order in which getConfig visits the providers
ProviderOrder == <<"antigravity", "codex", "copilot">>

Model(id, label) == [id |-> id, label |-> label]

\* the static baseline of a provider
StaticModels(provider) ==
    CASE provider = "copilot" ->
            <<Model("gpt-4o", "Copilot - GPT-4o"),
              Model("claude-opus-4-5-thinking", "Copilot - Claude Opus 4.5")>>
      [] provider = "codex" -> <<Model("gpt-5-codex", "Codex - GPT-5")>>
      [] OTHER -> <<Model("claude-sonnet-4-5", "Antigravity - Claude Sonnet 4.5")>>

\* the model list the provider has
RemoteModels ==
    <<Model("gpt-5.2", "GPT-5.2"), Model("gpt-4o", "GPT-4o Dynamic"),
      Model("gpt-5.2", "Duplicate"), Model(EMPTY, "invalid")>>

\* what the remote model-list call of a provider can do: throw (`models` is
\* then what the call would have reported), or answer
RemoteResults ==
    {[ok |-> FALSE, models |-> RemoteModels],
     [ok |-> TRUE, models |-> RemoteModels]}

\* String.prototype.trim(), on the strings of the model that carry leading
\* or trailing whitespace
Trim(str) ==
    CASE str = " gpt-5.2 " -> "gpt-5.2"
      [] str = "  Copilot - GPT-5.2  " -> "Copilot - GPT-5.2"
      [] str = "o3 " -> "o3"
      [] str = " Copilot - o3" -> "Copilot - o3"
      [] str = "   " -> EMPTY
      [] OTHER -> str

RECURSIVE Sanitize_untrimmed(_, _)
\* (mutant) an entry is dropped or kept on its raw id, and kept as it came
Sanitize_untrimmed(models, seen) ==
    IF models = <<>> THEN <<>>
    ELSE IF Head(models).id = EMPTY \/ Head(models).id \in seen
        THEN Sanitize_untrimmed(Tail(models), seen)
    ELSE <<Head(models)>>
            \o Sanitize_untrimmed(Tail(models), seen \cup {Head(models).id})

RECURSIVE Sanitize(_, _)
\* id and label trimmed, entries whose trimmed id is empty dropped, the first
\* entry of each trimmed id kept
Sanitize(models, seen) ==
    IF models = <<>> THEN <<>>
    ELSE IF Trim(Head(models).id) = EMPTY \/ Trim(Head(models).id) \in seen
        THEN Sanitize(Tail(models), seen)
    ELSE <<Model(Trim(Head(models).id), Trim(Head(models).label))>>
            \o Sanitize(Tail(models), seen \cup {Trim(Head(models).id)})

\* (mutant) the new entries are added to the cached ones
setDynamicModels_appending(models) ==
    dynamicModels["copilot"] \o Sanitize(models, {})

\* setDynamicCopilotModels(models): the list the cache is replaced with
setDynamicModels(models) == Sanitize(models, {})

\* (mutant) the whole static list appended
MergedCatalog_allStatic(dynamic, provider) ==
    dynamic \o StaticModels(provider)

\* (mutant) the static list shown only beside dynamic entries
MergedCatalog_noFallback(dynamic, provider) ==
    IF dynamic = <<>> THEN <<>>
    ELSE dynamic \o SelectSeq(StaticModels(provider),
                              LAMBDA m : \A i \in 1..Len(dynamic) : dynamic[i].id # m.id)

\* getProviderModels(provider) over a given cache: the dynamic entries, then
\* the static entries whose id is not among them
MergedCatalog(dynamic, provider) ==
    dynamic \o SelectSeq(StaticModels(provider),
                         LAMBDA m : \A i \in 1..Len(dynamic) : dynamic[i].id # m.id)

getProviderModels(provider) == MergedCatalog(dynamicModels[provider], provider)

\* authStore.listAccounts(provider)
listAccounts(provider) == accountsByProvider[provider]

\* (mutant) the most recently inserted account
pickAccount_newest(accounts) == accounts[Len(accounts)]

\* the account a refresh uses: the first of the list
pickAccount(accounts) == accounts[1]

\* (mutant) one attempt per account of the provider
refreshAccounts_perAccount(provider) == listAccounts(provider)

\* the accounts getConfig calls the remote model list with, for one provider
refreshAccounts(provider) ==
    IF listAccounts(provider) = <<>> THEN <<>>
    ELSE <<pickAccount(listAccounts(provider))>>

RECURSIVE Attempts(_)
\* the remote calls of one getConfig, over the first i providers
Attempts(i) ==
    IF i = 0 THEN <<>>
    ELSE Attempts(i - 1) \o
         [k \in 1..Len(refreshAccounts(ProviderOrder[i])) |->
            [provider |-> ProviderOrder[i], id |-> refreshAccounts(ProviderOrder[i])[k]]]

\* authStore.addAccount(provider, account), for an id the provider has not
addAccount(provider, id) ==
    /\ Len(accountsByProvider[provider]) < MaxAccounts
    /\ \A i \in 1..Len(accountsByProvider[provider]) : accountsByProvider[provider][i] # id
    /\ accountsByProvider' = [accountsByProvider EXCEPT ![provider] = Append(@, id)]
    /\ ret' = NoReturn
    /\ UNCHANGED <<dynamicModels, syncedWithAccountIds>>
    /\ UNCHANGED untouched

\* clearDynamicCopilotModels()
clearDynamicCopilotModels ==
    /\ dynamicModels' = [dynamicModels EXCEPT !["copilot"] = <<>>]
    /\ ret' = Return("clearDynamicCopilotModels", "void", UNDEFINED, UNDEFINED, <<>>)
    /\ UNCHANGED <<accountsByProvider, syncedWithAccountIds>>
    /\ UNCHANGED untouched

\* what the remote calls of one getConfig can do: one outcome for each
\* provider that is called (the outcome of a provider that is not called is
\* fixed, and never read)
RemoteOutcomes ==
    {remote \in [Provider -> RemoteResults] :
        \A p \in Provider : refreshAccounts(p) = <<>> => ~remote[p].ok}

\* (mutant) the list of a failed fetch is cached all the same
refreshed_ignoringFailure(provider, result) ==
    IF refreshAccounts(provider) # <<>>
    THEN setDynamicModels(result.models)
    ELSE dynamicModels[provider]

\* the dynamic cache of a provider after its refresh: replaced when the
\* remote call was made and answered, kept as it was otherwise (an exception
\* of the call is caught and logged)
refreshed(provider, result) ==
    IF refreshAccounts(provider) # <<>> /\ result.ok
    THEN setDynamicModels(result.models)
    ELSE dynamicModels[provider]

\* GET /config: refresh the dynamic models of each provider that has an
\* account (a failed refresh is swallowed), then answer the merged catalogs
getConfig(remote) ==
    /\ UNCHANGED accountsByProvider
    /\ syncedWithAccountIds' = Attempts(Len(ProviderOrder))
    /\ dynamicModels' = [p \in Provider |-> refreshed(p, remote[p])]
    /\ ret' = Response("GET /config", 200,
                       [models |-> [p \in Provider |-> MergedCatalog(dynamicModels'[p], p)]])
    /\ UNCHANGED untouched

NextRouting ==
    \/ \E p \in Provider : \E id \in AccountIds(p) : addAccount(p, id)
    \/ clearDynamicCopilotModels
    \/ \E remote \in RemoteOutcomes : getConfig(remote)

\* the routing layer on its own
SpecRouting == Init /\ [][NextRouting]_vars

\* --------------------------------------------------------- model catalog
\* the longest list given to setDynamicCopilotModels
MaxModels == 3

\* the entries a dynamic list is made of: padded, duplicate, empty, blank,
\* shared with the static list
DynamicEntries ==
    {Model(" gpt-5.2 ", "  Copilot - GPT-5.2  "),
     Model("gpt-5.2", "Copilot - Duplicate"),
     Model(EMPTY, "invalid"),
     Model("   ", "blank"),
     Model("gpt-4o", "Copilot - GPT-4o Dynamic"),
     Model("o3 ", " Copilot - o3")}

DynamicLists == UNION {[1..n -> DynamicEntries] : n \in 0..MaxModels}

\* setDynamicCopilotModels(models)
setDynamicCopilotModels(models) ==
    /\ dynamicModels' = [dynamicModels EXCEPT !["copilot"] = setDynamicModels(models)]
    /\ ret' = Return("setDynamicCopilotModels", "void", UNDEFINED, UNDEFINED,
                     <<[models |-> models]>>)
    /\ UNCHANGED <<accountsByProvider, syncedWithAccountIds>>
    /\ UNCHANGED untouched

\* a call of getProviderModels(provider)
readProviderModels(provider) ==
    /\ ret' = Return("getProviderModels", provider, UNDEFINED, UNDEFINED,
                     <<[models |-> getProviderModels(provider)]>>)
    /\ UNCHANGED routing
    /\ UNCHANGED untouched

NextCatalog ==
    \/ \E models \in DynamicLists : setDynamicCopilotModels(models)
    \/ setDynamicCopilotModels(getProviderModels("copilot"))
    \/ clearDynamicCopilotModels
    \/ \E p \in Provider : readProviderModels(p)

\* the model catalog on its own
SpecCatalog == Init /\ [][NextCatalog]_vars

\* ------------------------------------------------------- startOAuthLogin
\* the state token of the synchronous login, no session's token
LoginState == generateState(MaxSessions + 1)

\* what startOAuthLogin returns: { success, error?, email? }
LoginResult(success, error, email) ==
    [success |-> success, error |-> error, email |-> email]

\* the locals of a startOAuthLogin call: `oauthServer` is whether the local
\* variable holds the server, `allocated` whether startOAuthCallbackServer
\* resolved, `stops` the stop() calls made on the server, `open` whether its
\* listener still listens, `threw` whether a stop() call threw, `deadline`
\* when the timeout promise rejects and `result` the value the call returned
Login(pc) ==
    [pc |-> pc, oauthServer |-> FALSE, allocated |-> FALSE, stops |-> 0,
     open |-> FALSE, threw |-> FALSE, deadline |-> 0, result |-> <<>>]

login == oauthLogin[1]
LoginAt(pc) == oauthLogin # <<>> /\ login.pc = pc

\* what a stop() call can do: return, or throw with the listener left in
\* either condition
StopOutcomes == {"stopped", "threw", "threw-open"}

\* server.stop() on the login's server
Stop(l, outcome) ==
    [l EXCEPT !.stops = @ + 1,
              !.open = IF outcome = "threw-open" THEN @ ELSE FALSE,
              !.threw = @ \/ outcome # "stopped"]

\* (mutant) the function without its finally block
Finally_absent(l, outcome) == l

\* lines 358-364: finally { if (oauthServer) { try { oauthServer.stop() } catch {} } }
Finally(l, outcome) ==
    IF l.oauthServer THEN Stop(l, outcome) ELSE l

\* the call returns result r after its finally block ran
LoginReturns(l, outcome, r) ==
    /\ oauthLogin' = <<[Finally(l, outcome) EXCEPT !.pc = "returned", !.result = <<r>>]>>
    /\ ret' = Return("startOAuthLogin", IF r.success THEN "success" ELSE "error",
                     r.error, r.email, <<r>>)

\* lines 355-357: catch (error) { return { success: false, error: error.message } }
LoginCatches(l, outcome, message) ==
    LoginReturns(l, outcome, LoginResult(FALSE, message, UNDEFINED))

session_vars == <<activeAntigravityOAuthSession, listening, created, waiting,
                  starts, polls>>

\* line 318-323: the call begins and waits for startOAuthCallbackServer()
startOAuthLogin ==
    /\ oauthLogin = <<>> \/ LoginAt("returned")
    /\ oauthLogin' = <<Login("awaitServer")>>
    /\ ret' = NoReturn
    /\ UNCHANGED <<session_vars, state, authFile, now, routing, aside>>

\* line 323: startOAuthCallbackServer() rejects; no listener was allocated
startOAuthCallbackServer_rejected(message, outcome) ==
    /\ LoginAt("awaitServer")
    /\ LoginCatches(login, outcome, message)
    /\ UNCHANGED <<session_vars, state, authFile, now, routing, aside>>

\* lines 323-346: the server is allocated; building and printing the URL and
\* opening the browser throw `thrown` (UNDEFINED: nothing is thrown), else
\* the call waits for the race of waitForCallback() and the timeout
startOAuthCallbackServer_resolved(thrown, outcome) ==
    /\ LoginAt("awaitServer")
    /\ LET l == [login EXCEPT !.oauthServer = TRUE, !.allocated = TRUE,
                              !.open = TRUE, !.deadline = now + SESSION_TTL]
       IN IF thrown # UNDEFINED
          THEN LoginCatches(l, outcome, thrown)
          ELSE /\ oauthLogin' = <<[l EXCEPT !.pc = "awaitCallback"]>>
               /\ ret' = NoReturn
    /\ UNCHANGED <<session_vars, state, authFile, now, routing, aside>>

\* lines 341-343: the timeout promise wins the race
timeoutPromise_rejected(outcome) ==
    /\ LoginAt("awaitCallback")
    /\ now >= login.deadline
    /\ LoginCatches(login, outcome, AUTH_TIMEOUT)
    /\ UNCHANGED <<session_vars, state, authFile, now, routing, aside>>

\* line 348: waitForCallback() rejects and wins the race
waitForCallback_rejected(message, outcome) ==
    /\ LoginAt("awaitCallback")
    /\ LoginCatches(login, outcome, message)
    /\ UNCHANGED <<session_vars, state, authFile, now, routing, aside>>

\* lines 348-354 into 91-103: waitForCallback() resolves with callbackResult;
\* server.stop() (outcome `stopped`: it can throw), oauthServer = null, and
\* completeOAuthCallbackLogin up to its first await
waitForCallback_resolved(callbackResult, stopped, outcome) ==
    /\ LoginAt("awaitCallback")
    /\ IF stopped # "stopped"
       THEN LoginCatches(Stop(login, stopped), outcome, "stop failed")
       ELSE LET l == [Stop(login, stopped) EXCEPT !.oauthServer = FALSE]
                error == CallbackError(callbackResult, LoginState)
            IN IF error # UNDEFINED
               THEN LoginReturns(l, outcome, LoginResult(FALSE, error, UNDEFINED))
               ELSE /\ oauthLogin' = <<[l EXCEPT !.pc = "awaitUpstream"]>>
                    /\ ret' = NoReturn
    /\ UNCHANGED <<session_vars, state, authFile, now, routing, aside>>

\* lines 103-105: exchangeCode, fetchUserInfo or getProjectID throws
login_upstreamThrew(message, outcome) ==
    /\ LoginAt("awaitUpstream")
    /\ LoginCatches(login, outcome, message)
    /\ UNCHANGED <<session_vars, state, authFile, now, routing, aside>>

\* lines 106-123: getProjectID resolved; the state writes and saveAuth
login_getProjectID_resolved(tokens, email, projectId, outcome) ==
    /\ LoginAt("awaitUpstream")
    /\ IF email = UNDEFINED
       THEN /\ state' = LoginInterrupted(state, tokens, now)
            /\ authFile' = authFile
            /\ LoginCatches(login, outcome, "TypeError")
       ELSE /\ state' = LoggedIn(tokens, email, projectId, now)
            /\ authFile' = <<saveAuth(state')>>
            /\ LoginReturns(login, outcome, LoginResult(TRUE, UNDEFINED, email))
    /\ UNCHANGED <<session_vars, now, routing, aside>>

\* Date.now() advances while the login runs
LoginTick(t) == Tick(t) /\ UNCHANGED outside

NextLogin ==
    \/ startOAuthLogin
    \/ \E m \in UpstreamErrors, o \in StopOutcomes : startOAuthCallbackServer_rejected(m, o)
    \/ \E m \in UpstreamErrors \cup {UNDEFINED}, o \in StopOutcomes :
         startOAuthCallbackServer_resolved(m, o)
    \/ \E o \in StopOutcomes : timeoutPromise_rejected(o)
    \/ \E m \in UpstreamErrors, o \in StopOutcomes : waitForCallback_rejected(m, o)
    \/ \E r \in CallbackResults(LoginState), s \in StopOutcomes, o \in StopOutcomes :
         waitForCallback_resolved(r, s, o)
    \/ \E m \in UpstreamErrors, o \in StopOutcomes : login_upstreamThrew(m, o)
    \/ \E t \in TokenResponses, e \in UserEmails, j \in ProjectIds, o \in StopOutcomes :
         login_getProjectID_resolved(t, e, j, o)
    \/ \E t \in Instants : LoginTick(t)

SpecLogin == Init /\ [][NextLogin]_vars

\* ------------------------------------- GET /auth/antigravity/oauth/status
\* `account-${Date.now()}`
AccountAt(t) ==
    CASE t = 0 -> "account-0"
      [] t = SESSION_TTL -> "account-300000"
      [] OTHER -> "account-300001"

\* the account syncAntigravityAccountFromState builds from the state
AccountFromState(st, t) ==
    [id |-> OrElse(st.userEmail, AccountAt(t)),
     email |-> OrElse(st.userEmail, "unknown"),
     accessToken |-> st.accessToken,
     refreshToken |-> OrElse(st.refreshToken, EMPTY),
     expiresAt |-> IF st.tokenExpiresAt = <<>> THEN 0 ELSE st.tokenExpiresAt[1],
     projectId |-> st.cloudaicompanionProject]

\* accountManager.addAccount(account): upsert by id; an entry that is
\* replaced keeps its createdAt, a new one is stamped with the time
Upsert(list, account, t) ==
    IF \E i \in 1..Len(list) : list[i].account.id = account.id
    THEN [i \in 1..Len(list) |->
            IF list[i].account.id = account.id
            THEN [account |-> account, createdAt |-> list[i].createdAt]
            ELSE list[i]]
    ELSE Append(list, [account |-> account, createdAt |-> t])

\* syncAntigravityAccountFromState(): the account list afterwards
syncAntigravityAccountFromState(list, st, t) ==
    IF ~Truthy(st.accessToken) THEN list
    ELSE Upsert(list, AccountFromState(st, t), t)

\* (mutant) the route syncing on every result that is not an error
SyncsOn_notError(status) == status # "error"

\* `if (result.status === "success")`
SyncsOn(status) == status = "success"

\* the route after `await pollAntigravityOAuthSession(oauthState)`: it runs
\* in the step in which the poll returns
oauthStatus_afterPoll ==
    /\ accountManager' =
         IF ret'.op = "poll" /\ SyncsOn(ret'.result)
         THEN syncAntigravityAccountFromState(accountManager, state', now')
         ELSE accountManager
    /\ UNCHANGED <<routing, oauthLogin, refreshCall>>

\* the route called without a state, or with an empty one
oauthStatus_stateRequired(oauthState) ==
    /\ ~Truthy(oauthState)
    /\ ret' = Response("GET /auth/antigravity/oauth/status", 400,
                       [success |-> FALSE, error |-> "state required"])
    /\ UNCHANGED untouched
    /\ UNCHANGED routing

\* the session manager behind its routes
NextStatus ==
    \/ startAntigravityOAuthSession /\ UNCHANGED outside
    \/ startAntigravityOAuthSession_resume /\ UNCHANGED outside
    \/ startAntigravityOAuthSession_throw /\ UNCHANGED outside
    \/ \E s \in waiting : \E r \in Settlements(s) :
         waitForCallback_settled(s, r) /\ UNCHANGED outside
    \/ \E s \in {UNDEFINED, EMPTY} : oauthStatus_stateRequired(s)
    \/ \E s \in Presentable :
         pollAntigravityOAuthSession(s) /\ oauthStatus_afterPoll
    \/ \E n \in 1..MaxSessions : \E m \in UpstreamErrors :
         poll_catch(n, m) /\ oauthStatus_afterPoll
    \/ \E n \in 1..MaxSessions : \E t \in TokenResponses, e \in UserEmails, j \in ProjectIds :
         getProjectID_resolved(n, t, e, j) /\ oauthStatus_afterPoll
    \/ \E s \in Presentable \cup {UNDEFINED, EMPTY} :
         cancelAntigravityOAuthSession(s) /\ UNCHANGED outside
    \/ \E t \in Instants : Tick(t) /\ UNCHANGED outside

SpecStatus == Init /\ [][NextStatus]_vars

\* ------------------------------ initAuth, setAuth, clearAuth, refreshToken
\* auth.json after clearAuth wrote "{}" into it
EmptyAuthData ==
    [accessToken |-> UNDEFINED, refreshToken |-> UNDEFINED, expiresAt |-> <<>>,
     userEmail |-> UNDEFINED, userName |-> UNDEFINED, projectId |-> UNDEFINED]

\* isAuthenticated()
isAuthenticated == Truthy(state.accessToken)

\* lines 221-227 of initAuth: the state loaded from the AuthData record
Loaded(data) ==
    [accessToken |-> data.accessToken,
     antigravityToken |-> data.accessToken,
     refreshToken |-> OrElse(data.refreshToken, UNDEFINED),
     tokenExpiresAt |-> data.expiresAt,
     userEmail |-> OrElse(data.userEmail, UNDEFINED),
     userName |-> OrElse(data.userName, UNDEFINED),
     cloudaicompanionProject |-> OrElse(data.projectId, UNDEFINED)]

\* initAuth(): load auth.json if it exists and holds an access token
initAuth ==
    /\ state' = IF authFile # <<>> /\ Truthy(authFile[1].accessToken)
                THEN Loaded(authFile[1]) ELSE state
    /\ ret' = Return("initAuth", "void", UNDEFINED, UNDEFINED, <<>>)
    /\ UNCHANGED <<session_vars, authFile, now, routing, oauthLogin, aside>>

\* (mutant) setAuth forgetting the second token field
SetAuth_oneToken(st, accessToken, refreshToken, email, name) ==
    [st EXCEPT !.accessToken = accessToken,
               !.refreshToken = OrElse(refreshToken, UNDEFINED),
               !.userEmail = OrElse(email, UNDEFINED),
               !.userName = OrElse(name, UNDEFINED)]

\* lines 307-311 of setAuth: the state after its assignments
SetAuth(st, accessToken, refreshToken, email, name) ==
    [st EXCEPT !.accessToken = accessToken,
               !.antigravityToken = accessToken,
               !.refreshToken = OrElse(refreshToken, UNDEFINED),
               !.userEmail = OrElse(email, UNDEFINED),
               !.userName = OrElse(name, UNDEFINED)]

\* the bodies of POST /login that carry an access token
TokenBodies ==
    {[accessToken |-> "at-2", refreshToken |-> "rt-2",
      email |-> "bob@example.com", name |-> "bob"],
     [accessToken |-> "at-2", refreshToken |-> UNDEFINED,
      email |-> UNDEFINED, name |-> UNDEFINED]}

\* POST /login with body.accessToken: setAuth, saveAuth, then the account sync
authLogin_setAuth(body) ==
    /\ state' = SetAuth(state, body.accessToken, body.refreshToken, body.email, body.name)
    /\ authFile' = <<saveAuth(state')>>
    /\ accountManager' = syncAntigravityAccountFromState(accountManager, state', now)
    /\ ret' = Response("POST /auth/login", 200,
                       [success |-> TRUE, authenticated |-> TRUE,
                        email |-> body.email, name |-> body.name])
    /\ UNCHANGED <<session_vars, now, routing, oauthLogin, refreshCall>>

\* lines 267-272 of clearAuth: the state after its assignments
Cleared(st) ==
    [st EXCEPT !.accessToken = UNDEFINED,
               !.antigravityToken = UNDEFINED,
               !.refreshToken = UNDEFINED,
               !.userEmail = UNDEFINED,
               !.userName = UNDEFINED,
               !.cloudaicompanionProject = UNDEFINED]

\* POST /logout: clearAuth()
authLogout ==
    /\ state' = Cleared(state)
    /\ authFile' = IF authFile # <<>> THEN <<EmptyAuthData>> ELSE authFile
    /\ ret' = Response("POST /auth/logout", 200,
                       [success |-> TRUE, authenticated |-> FALSE])
    /\ UNCHANGED <<session_vars, now, routing, oauthLogin, aside>>

\* GET /status
authStatus ==
    /\ ret' = Response("GET /auth/status", 200,
                       [authenticated |-> isAuthenticated,
                        email |-> state.userEmail, name |-> state.userName])
    /\ UNCHANGED untouched
    /\ UNCHANGED routing

\* what refreshAccessToken resolves with
RefreshResponses ==
    {[accessToken |-> "at-3", refreshToken |-> "rt-3", expiresIn |-> 3600]}

RefreshReturn(result) ==
    ret' = Return("refreshToken", result, UNDEFINED, UNDEFINED, <<>>)

\* refreshToken() up to its return (no refresh token is stored) or up to
\* `await refreshAccessToken(state.refreshToken)`; one call runs at a time
refreshToken ==
    /\ refreshCall = <<>>
    /\ IF ~Truthy(state.refreshToken)
       THEN RefreshReturn("false") /\ UNCHANGED refreshCall
       ELSE /\ refreshCall' = <<[refreshToken |-> state.refreshToken]>>
            /\ ret' = NoReturn
    /\ UNCHANGED <<session_vars, state, authFile, now, routing, oauthLogin,
                   accountManager>>

\* (mutant) the refresh storing the rotated refresh token too
Refreshed_rotating(st, tokens) ==
    [st EXCEPT !.accessToken = tokens.accessToken,
               !.antigravityToken = tokens.accessToken,
               !.refreshToken = tokens.refreshToken]

\* lines 377-378: the state after a successful refresh
Refreshed(st, tokens) ==
    [st EXCEPT !.accessToken = tokens.accessToken,
               !.antigravityToken = tokens.accessToken]

\* refreshAccessToken resolved: the rest of the try block
refreshAccessToken_resolved(tokens) ==
    /\ refreshCall # <<>>
    /\ refreshCall' = <<>>
    /\ state' = Refreshed(state, tokens)
    /\ authFile' = <<saveAuth(state')>>
    /\ RefreshReturn("true")
    /\ UNCHANGED <<session_vars, now, routing, oauthLogin, accountManager>>

\* refreshAccessToken rejected: the catch block
refreshAccessToken_rejected ==
    /\ refreshCall # <<>>
    /\ refreshCall' = <<>>
    /\ RefreshReturn("false")
    /\ UNCHANGED <<session_vars, state, authFile, now, routing, oauthLogin,
                   accountManager>>

\* the callback of a login that goes through
AcceptedCallback == [code |-> "code-1", state |-> LoginState, error |-> UNDEFINED]

\* the credential functions, beside a synchronous login whose listener and
\* callback are in order (the login is what writes the credentials of an
\* earlier identity)
NextAuth ==
    \/ startOAuthLogin
    \/ startOAuthCallbackServer_resolved(UNDEFINED, "stopped")
    \/ waitForCallback_resolved(AcceptedCallback, "stopped", "stopped")
    \/ \E t \in TokenResponses, e \in UserEmails, j \in ProjectIds :
         login_getProjectID_resolved(t, e, j, "stopped")
    \/ initAuth
    \/ \E body \in TokenBodies : authLogin_setAuth(body)
    \/ authLogout
    \/ authStatus
    \/ refreshToken
    \/ \E tokens \in RefreshResponses : refreshAccessToken_resolved(tokens)
    \/ refreshAccessToken_rejected

SpecAuth == Init /\ [][NextAuth]_vars

\* =====================================================================
\* C1  Idempotent restart
\* =====================================================================

\* C1: a startAntigravityOAuthSession call made while a session is active and
\* now < expiresAt returns that session's {state, authUrl, redirectUri,
\* expiresAt} at once and changes nothing: no listener is allocated, no state
\* token generated, and the session, with any callback already delivered to
\* it, stays as it was.
C1_IdempotentRestart ==
    [][(HasSession /\ now < session.expiresAt /\ startAntigravityOAuthSession)
         => /\ ret' = Return("start", "session", UNDEFINED, UNDEFINED,
                             <<Descriptor(session)>>)
            /\ UNCHANGED program]_vars

\* a start has just returned the descriptor of a session that already holds
\* a delivered callback
C1_Witness ==
    /\ ret.op = "start"
    /\ HasSession
    /\ session.callback # <<>>
    /\ ret.value = <<Descriptor(session)>>

\* =====================================================================
\* C2  A callback with a foreign state
\* =====================================================================

\* the active session is st, has not expired for poll, and holds a callback
Holding(st) ==
    /\ Matches(st)
    /\ ~(now > session.expiresAt)
    /\ session.callback # <<>>

\* C2: a callback delivered to the active session's listener
\* whose state field differs from the session's state is ignored (not stored
\* on the session), and a later poll with the correct state, before expiry,
\* returns pending and leaves the session active.
C2_ForeignStateIgnored ==
    [][/\ \A s \in waiting : \A r \in Settlements(s) :
            (Matches(s) /\ Truthy(r.state) /\ r.state # s
                /\ waitForCallback_settled(s, r))
              => UNCHANGED activeAntigravityOAuthSession
       /\ \A st \in Presentable :
            (Holding(st)
                /\ Truthy(session.callback[1].state)
                /\ session.callback[1].state # st
                /\ pollAntigravityOAuthSession(st))
              => /\ ret' = Return("poll", "pending", UNDEFINED, UNDEFINED, <<>>)
                 /\ UNCHANGED activeAntigravityOAuthSession]_vars

\* =====================================================================
\* C3  Polling an expired session
\* =====================================================================

\* C3: a poll of the active session with its own state when now > expiresAt
\* returns error "Authentication timeout (5 minutes)" whether or not a
\* callback was delivered, runs no completion, tears the session down and
\* stops its listener; a state that is not the active session's never
\* becomes the active session's again, and a poll with such a state answers
\* "No active Antigravity OAuth session".
C3_ExpiredPollTimesOut ==
    [][\A st \in Presentable :
        /\ (Matches(st) /\ now > session.expiresAt
                /\ pollAntigravityOAuthSession(st))
             => /\ ret' = Return("poll", "error", AUTH_TIMEOUT, UNDEFINED, <<>>)
                /\ activeAntigravityOAuthSession' = <<>>
                /\ listening' = listening \ {session.server}
                /\ UNCHANGED <<polls, state, authFile>>
        /\ ~Matches(st)
             => ~(activeAntigravityOAuthSession' # <<>>
                    /\ activeAntigravityOAuthSession'[1].state = st)
        /\ (~Matches(st) /\ pollAntigravityOAuthSession(st))
             => ret' = Return("poll", "error", NO_ACTIVE_SESSION, UNDEFINED, <<>>)
      ]_vars

\* a poll has just timed out a session whose callback had been delivered
C3_Witness ==
    /\ ret.op = "poll"
    /\ ret.message = AUTH_TIMEOUT
    /\ created = 1
    /\ waiting = {}
    /\ listening = {}

\* =====================================================================
\* C4  cancelAntigravityOAuthSession
\* =====================================================================

\* the values the cancel route can pass: no state, or any string
CancelArguments == Presentable \cup {UNDEFINED, EMPTY}

\* C4: cancel without an active session returns false and changes nothing;
\* with any supplied state that differs from the active session's it returns
\* false and leaves the session and its listener alone; it returns true, and
\* then stops the listener and empties the slot, only when no state is
\* supplied or the supplied state is the active session's.
C4_CancelNeedsMatchingState ==
    [][\A a \in CancelArguments :
        cancelAntigravityOAuthSession(a) =>
          /\ ret'.op = "cancel"
          /\ ret'.result \in {"true", "false"}
          /\ ~HasSession => (ret'.result = "false" /\ UNCHANGED program)
          /\ (HasSession /\ a # UNDEFINED /\ a # session.state)
               => (ret'.result = "false" /\ UNCHANGED program)
          /\ ret'.result = "true"
               => /\ HasSession
                  /\ a = UNDEFINED \/ a = session.state
                  /\ activeAntigravityOAuthSession' = <<>>
                  /\ listening' = listening \ {session.server}
      ]_vars

\* =====================================================================
\* C5  Polling with a state that matches no active session
\* =====================================================================

\* C5: a poll with a state that is not the active session's (none active, or
\* another one) returns error "No active Antigravity OAuth session" and
\* leaves the active session, the listeners and the credentials unchanged.
C5_UnknownStateIsNoActiveSession ==
    [][\A st \in Presentable :
        ((~HasSession \/ session.state # st)
            /\ pollAntigravityOAuthSession(st))
          => /\ ret' = Return("poll", "error", NO_ACTIVE_SESSION, UNDEFINED, <<>>)
             /\ UNCHANGED program]_vars

\* a poll has just been refused while another session is active and holds a
\* callback
C5_Witness ==
    /\ ret.op = "poll"
    /\ ret.message = NO_ACTIVE_SESSION
    /\ HasSession
    /\ session.callback # <<>>

\* =====================================================================
\* C6  Validation order of the completion protocol
\* =====================================================================

\* the poll fails with message m without an upstream call or a credential write
FailsWith(m) ==
    /\ ret' = Return("poll", "error", m, UNDEFINED, <<>>)
    /\ UNCHANGED <<polls, state, authFile>>

\* C6: the completion protocol, run by a poll on a session holding a
\* callback, validates in this order: a (non-empty) error in the callback
\* fails with that error; otherwise a missing code or state fails with
\* "Missing code or state in callback"; otherwise a state other than the
\* session's fails with "State mismatch - possible CSRF attack", which is
\* not the timeout message.  A failed validation makes no upstream call and
\* writes no credential.
C6_ValidationOrder ==
    [][\A st \in Presentable :
        (Holding(st) /\ pollAntigravityOAuthSession(st)) =>
          LET cb == session.callback[1] IN
          /\ Truthy(cb.error) => FailsWith(cb.error)
          /\ (~Truthy(cb.error) /\ (~Truthy(cb.code) \/ ~Truthy(cb.state)))
               => FailsWith(MISSING_CODE_OR_STATE)
          /\ (~Truthy(cb.error) /\ Truthy(cb.code) /\ Truthy(cb.state)
                /\ cb.state # session.state)
               => (FailsWith(STATE_MISMATCH) /\ STATE_MISMATCH # AUTH_TIMEOUT)
      ]_vars

\* a poll has just failed on a callback without code or state
C6_Witness ==
    /\ ret.op = "poll"
    /\ ret.result = "error"
    /\ ret.message = MISSING_CODE_OR_STATE

\* =====================================================================
\* C7  Teardown on every outcome of the completion
\* =====================================================================

\* a poll of session n leaves the completion protocol
CompletionEnds(n) ==
    \/ \E m \in UpstreamErrors : poll_catch(n, m)
    \/ \E t \in TokenResponses, e \in UserEmails, j \in ProjectIds :
         getProjectID_resolved(n, t, e, j)

\* C7: a poll of a non-expired session that holds a callback runs the
\* completion protocol and, whatever its outcome (success, failed
\* validation, an exception of an upstream call), returns success with the
\* email or error with a message, with the session torn down and the
\* session's listener stopped.
C7_TeardownOnEveryOutcome ==
    [][/\ \A st \in Presentable :
            (Holding(st) /\ pollAntigravityOAuthSession(st))
              => \/ /\ ret' = NoReturn
                    /\ polls' = [polls EXCEPT ![session.server] = @ + 1]
                 \/ /\ ret'.op = "poll"
                    /\ ret'.result = "error"
                    /\ Truthy(ret'.message)
                    /\ activeAntigravityOAuthSession' = <<>>
                    /\ session.server \notin listening'
       /\ \A n \in 1..MaxSessions :
            CompletionEnds(n)
              => /\ ret'.op = "poll"
                 /\ \/ ret'.result = "success" /\ Truthy(ret'.email)
                    \/ ret'.result = "error" /\ Truthy(ret'.message)
                 /\ ~(activeAntigravityOAuthSession' # <<>>
                        /\ activeAntigravityOAuthSession'[1].server = n)
                 /\ n \notin listening'
      ]_vars

\* =====================================================================
\* C8  The removed credential endpoints
\* =====================================================================

\* a request to one of the four removed endpoints
RemovedRequest ==
    \/ authExport
    \/ \E payload \in Payloads : authImport(payload)
    \/ bundleExport
    \/ \E payload \in Payloads : bundleImport(payload)

\* C8: GET /auth/export, POST /auth/import, GET /bundle/export and
\* POST /bundle/import answer status 410 with the body {success: false,
\* error: "Credential bundle export/import has been removed."} for every
\* payload and in every reachable state, and change no session, account or
\* credential state.
C8_RemovedEndpointsAreGone ==
    [][RemovedRequest
        => /\ ret'.status = 410
           /\ ret'.value = <<[success |-> FALSE,
                              error |-> "Credential bundle export/import has been removed."]>>
           /\ UNCHANGED program
           /\ UNCHANGED routing]_vars

\* GET /auth/export has just answered while logged in with a session active
C8_Witness ==
    /\ ret.op = "GET /auth/export"
    /\ ret.status = 410
    /\ state.accessToken # UNDEFINED
    /\ HasSession

\* =====================================================================
\* C9  The refresh uses the earliest-inserted account
\* =====================================================================

\* a GET /config request is served, whatever the remote calls do
ConfigRequest == \E remote \in RemoteOutcomes : getConfig(remote)

\* the remote calls the last getConfig made for a provider
AttemptsFor(log, provider) == SelectSeq(log, LAMBDA a : a.provider = provider)

C10_OneAttemptPerProvider ==
    [][ConfigRequest =>
          \A p \in Provider :
            Len(AttemptsFor(syncedWithAccountIds', p)) =
              IF listAccounts(p) = <<>> THEN 0 ELSE 1
      ]_vars

\* getConfig has just made a single, failed, attempt for copilot, which has
\* two accounts, and none for codex, which has no account
C10_Witness ==
    /\ ret.op = "GET /config"
    /\ Len(accountsByProvider["copilot"]) = 2
    /\ accountsByProvider["codex"] = <<>>
    /\ Len(AttemptsFor(syncedWithAccountIds, "copilot")) = 1
    /\ AttemptsFor(syncedWithAccountIds, "codex") = <<>>
    /\ dynamicModels["copilot"] = <<>>
    /\ ret.value[1].models["copilot"] = StaticModels("copilot")

\* =====================================================================
\* C11  A failed model-list fetch is swallowed
\* =====================================================================

\* the ids of a model list
Ids(models) == {models[i].id : i \in 1..Len(models)}

\* C11: when the remote model-list fetch of a provider fails during
\* getConfig, the call still answers status 200, the provider's dynamic
\* cache keeps the value it had (empty on a first-ever failure, and then the
\* catalog is the static list), and the returned catalog is the merge of that
\* unchanged cache with the static list: it holds no model that only the
\* failed fetch would have reported.
C11_FailedRefreshIsSwallowed ==
    [][\A remote \in RemoteOutcomes :
        getConfig(remote) =>
          /\ ret'.status = 200
          /\ \A p \in Provider :
               (listAccounts(p) # <<>> /\ ~remote[p].ok) =>
                 /\ dynamicModels'[p] = dynamicModels[p]
                 /\ ret'.value[1].models[p] = MergedCatalog(dynamicModels[p], p)
                 /\ dynamicModels[p] = <<>>
                      => ret'.value[1].models[p] = StaticModels(p)
                 /\ Ids(ret'.value[1].models[p]) =
                      Ids(dynamicModels[p]) \cup Ids(StaticModels(p))
      ]_vars

\* getConfig has just answered after the first-ever copilot fetch failed:
\* one call was made, the cache is still empty and the catalog is the static
\* list, without the gpt-5.2 the provider has
C11_Witness ==
    /\ ret.op = "GET /config"
    /\ ret.status = 200
    /\ Len(AttemptsFor(syncedWithAccountIds, "copilot")) = 1
    /\ dynamicModels["copilot"] = <<>>
    /\ ret.value[1].models["copilot"] = StaticModels("copilot")
    /\ "gpt-5.2" \notin Ids(ret.value[1].models["copilot"])
    /\ "gpt-5.2" \in Ids(RemoteModels)

\* =====================================================================
\* C12  Sanitization of the dynamic list
\* =====================================================================

\* the list given to the setDynamicCopilotModels call that has just returned
Snapshot == ret.value[1].models

\* the visible copilot catalog
Catalog == getProviderModels("copilot")

\* the first entry of raw whose trimmed id is t
FirstIndex(raw, t) ==
    CHOOSE i \in 1..Len(raw) :
        /\ Trim(raw[i].id) = t
        /\ \A j \in 1..(i - 1) : Trim(raw[j].id) # t

\* the distinct trimmed non-empty ids of raw
TrimmedIds(raw) == {Trim(raw[i].id) : i \in 1..Len(raw)} \ {EMPTY}

\* C12: after setDynamicCopilotModels(raw), for each distinct trimmed
\* non-empty id of raw the visible catalog has exactly one entry with that
\* id, and its label is the trimmed label of the first entry of raw with that
\* trimmed id; entries whose trimmed id is empty are dropped, and the catalog
\* has no id beyond these and the static ones.
C12_DynamicListIsSanitized ==
    ret.op = "setDynamicCopilotModels" =>
        /\ \A t \in TrimmedIds(Snapshot) :
             /\ Cardinality({k \in 1..Len(Catalog) : Catalog[k].id = t}) = 1
             /\ \A k \in 1..Len(Catalog) :
                  Catalog[k].id = t
                    => Catalog[k].label = Trim(Snapshot[FirstIndex(Snapshot, t)].label)
        /\ \A k \in 1..Len(Catalog) : Catalog[k].id # EMPTY
        /\ Ids(Catalog) = TrimmedIds(Snapshot) \cup Ids(StaticModels("copilot"))

\* the list of the test has just been set: a padded entry, a duplicate of it
\* and an entry without id leave one gpt-5.2, with the first label trimmed
C12_Witness ==
    /\ ret.op = "setDynamicCopilotModels"
    /\ Snapshot = <<Model(" gpt-5.2 ", "  Copilot - GPT-5.2  "),
                    Model("gpt-5.2", "Copilot - Duplicate"),
                    Model(EMPTY, "invalid")>>
    /\ Cardinality({k \in 1..Len(Catalog) : Catalog[k].id = "gpt-5.2"}) = 1
    /\ Model("gpt-5.2", "Copilot - GPT-5.2") \in {Catalog[k] : k \in 1..Len(Catalog)}

\* =====================================================================
\* C13  Dynamic entries first, then the static entries not yet present
\* =====================================================================

\* C13: while the dynamic list is not empty, the visible catalog is the
\* sanitized dynamic entries, in the order of their first occurrence in the
\* list that was set, followed by exactly the static entries whose id is not
\* among them, in static order; every id occurs once, every static id is
\* present, and an id of both lists carries the dynamic label.
C13_DynamicThenMissingStatic ==
    LET dyn == dynamicModels["copilot"]
        sta == StaticModels("copilot")
    IN dyn # <<>> =>
        /\ Len(Catalog) >= Len(dyn)
        /\ SubSeq(Catalog, 1, Len(dyn)) = dyn
        /\ SubSeq(Catalog, Len(dyn) + 1, Len(Catalog)) =
             SelectSeq(sta, LAMBDA m : m.id \notin Ids(dyn))
        /\ \A i, j \in 1..Len(Catalog) : i # j => Catalog[i].id # Catalog[j].id
        /\ Ids(sta) \subseteq Ids(Catalog)
        /\ \A k \in 1..Len(Catalog) :
             Catalog[k].id \in Ids(dyn) \cap Ids(sta)
               => \E i \in 1..Len(dyn) : dyn[i] = Catalog[k]
        /\ ret.op = "setDynamicCopilotModels" =>
             \A i, j \in 1..Len(dyn) :
                i < j => FirstIndex(Snapshot, dyn[i].id) < FirstIndex(Snapshot, dyn[j].id)

\* a list with gpt-4o, which is also static, has just been set: gpt-4o is
\* shown once, with the dynamic label, before the remaining static entry
C13_Witness ==
    /\ ret.op = "setDynamicCopilotModels"
    /\ Catalog = <<Model("gpt-5.2", "Copilot - Duplicate"),
                   Model("gpt-4o", "Copilot - GPT-4o Dynamic"),
                   Model("claude-opus-4-5-thinking", "Copilot - Claude Opus 4.5")>>

\* =====================================================================
\* C14  An empty dynamic list shows the static baseline
\* =====================================================================

\* C14: whenever the dynamic list of a provider is empty (never populated,
\* cleared by clearDynamicCopilotModels, or set to a list that sanitizes to
\* nothing), getProviderModels returns exactly the static baseline: the same
\* entries in the same order.
C14_EmptyDynamicIsStatic ==
    /\ ret.op = "clearDynamicCopilotModels" => dynamicModels["copilot"] = <<>>
    /\ (ret.op = "setDynamicCopilotModels" /\ TrimmedIds(Snapshot) = {})
         => dynamicModels["copilot"] = <<>>
    /\ \A p \in Provider :
         dynamicModels[p] = <<>> =>
           /\ getProviderModels(p) = StaticModels(p)
           /\ (ret.op = "getProviderModels" /\ ret.result = p)
                => ret.value = <<[models |-> StaticModels(p)]>>

\* getProviderModels("copilot") has just returned the static list after a
\* list of entries without usable id was set
C14_Witness ==
    /\ ret.op = "getProviderModels"
    /\ ret.result = "copilot"
    /\ dynamicModels["copilot"] = <<>>
    /\ ret.value = <<[models |-> StaticModels("copilot")]>>
    /\ Model("gpt-4o", "Copilot - GPT-4o") \in {ret.value[1].models[k] : k \in 1..2}

\* =====================================================================
\* C15  The merge is idempotent
\* =====================================================================

\* the catalog after the step
CatalogAfter == MergedCatalog(dynamicModels'["copilot"], "copilot")

\* C15: setting the snapshot that was set by the call before leaves the
\* catalog as it is; setting the catalog itself as the snapshot leaves the
\* catalog as it is; reading the catalog changes nothing and returns the
\* catalog, so that two reads in a row return the same list.
C15_MergeIsIdempotent ==
    [][/\ ret'.op = "setDynamicCopilotModels"
          => LET snapshot == ret'.value[1].models
                 before == Catalog
             IN (\/ ret.op = "setDynamicCopilotModels" /\ Snapshot = snapshot
                 \/ snapshot = before)
                  => (setDynamicCopilotModels(snapshot) => CatalogAfter = before)
       /\ ret'.op = "getProviderModels"
          => (readProviderModels(ret'.result)
                => /\ UNCHANGED dynamicModels
                   /\ ret'.value = <<[models |-> getProviderModels(ret'.result)]>>
                   /\ (ret.op = "getProviderModels" /\ ret.result = ret'.result)
                        => ret'.value = ret.value)
      ]_vars

\* the catalog has just been fed back as the snapshot (it is longer than any
\* list set otherwise) and is still the catalog
C15_Witness ==
    /\ ret.op = "setDynamicCopilotModels"
    /\ Len(Snapshot) > MaxModels
    /\ Snapshot = Catalog
    /\ dynamicModels["copilot"] # <<>>

\* =====================================================================
\* C16  startOAuthLogin releases its listener on every exit path
\* =====================================================================

\* C16: once startOAuthLogin has returned with its callback server allocated,
\* stop() has been called on that server at least once, whichever path the
\* call left by (login succeeded, completion failed or threw, the timeout
\* won the race, building the URL threw), and the listener listens no more
\* unless a stop() call itself threw; the call returned { success: true,
\* email } or { success: false, error } and threw nothing.
C16_LoginReleasesListener ==
    LoginAt("returned") =>
        /\ login.result # <<>>
        /\ login.result[1].success \in BOOLEAN
        /\ login.result[1].success => login.result[1].email # UNDEFINED
        /\ ~login.result[1].success => login.result[1].error # UNDEFINED
        /\ ret.op = "startOAuthLogin" => ret.result \in {"success", "error"}
        /\ login.allocated =>
             /\ login.stops >= 1
             /\ login.open => login.threw
        /\ ~login.allocated => login.stops = 0

\* the timeout won the race: the call returned the timeout error and the
\* finally block stopped the server
C16_Witness ==
    /\ LoginAt("returned")
    /\ login.allocated
    /\ login.result = <<LoginResult(FALSE, AUTH_TIMEOUT, UNDEFINED)>>
    /\ login.stops = 1
    /\ ~login.open

\* =====================================================================
\* C17  A missing project id does not fail the login
\* =====================================================================

\* C17: when the callback was accepted, exchangeCode and fetchUserInfo
\* succeeded with an email and getProjectID returned no project id, the poll
\* returns success with the user's email, and the credential state and
\* auth.json hold a non-empty placeholder project id.
C17_MissingProjectIdIsReplaced ==
    [][\A n \in 1..MaxSessions :
         polls[n] > 0 =>
           \A t \in TokenResponses : \A e \in UserEmails \ {UNDEFINED} :
              getProjectID_resolved(n, t, e, UNDEFINED)
                => /\ ret'.op = "poll"
                   /\ ret'.result = "success"
                   /\ ret'.email = e
                   /\ Truthy(state'.cloudaicompanionProject)
                   /\ state'.userEmail = e
                   /\ authFile' # <<>>
                   /\ Truthy(authFile'[1].projectId)
      ]_vars

\* a poll has just reported success and the credential state holds the
\* placeholder project id
C17_Witness ==
    /\ ret.op = "poll"
    /\ ret.result = "success"
    /\ ret.email = "alice@example.com"
    /\ state.cloudaicompanionProject = MOCK_PROJECT
    /\ authFile # <<>>
    /\ authFile[1].projectId = MOCK_PROJECT

\* =====================================================================
\* C18  Overlapping starts share one session
\* =====================================================================

\* C18: a startAntigravityOAuthSession call that resumes from allocating its
\* callback server while a live session exists (a call that overlapped it
\* created the session meanwhile) returns that session's state and authUrl
\* and creates no second session.
C18_OverlappingStartsShareOneSession ==
    [][(/\ starts > 0
        /\ HasSession
        /\ now < session.expiresAt
        /\ startAntigravityOAuthSession_resume)
          => /\ ret'.value = <<Descriptor(session)>>
             /\ created' = created
             /\ activeAntigravityOAuthSession' = activeAntigravityOAuthSession
      ]_vars

\* =====================================================================
\* C19  The completion protocol runs once per session
\* =====================================================================

\* C19: at no time are two polls of one session inside the completion
\* protocol: the authorization code of a session is exchanged at most once.
C19_CompletionRunsOnce ==
    \A n \in 1..MaxSessions : polls[n] <= 1

\* =====================================================================
\* C20  Teardown is gated on the session the poll started with
\* =====================================================================

\* C20: when a poll of session A leaves the completion protocol after A was
\* torn down (cancelled, or replaced once expired) and another session B is
\* active, the poll's teardown stops neither B's listener nor clears B from
\* the active slot.
C20_TeardownSparesLaterSession ==
    [][\A n \in 1..MaxSessions :
         (/\ polls[n] > 0
          /\ HasSession
          /\ session.server # n
          /\ n \notin listening
          /\ CompletionEnds(n))
            => UNCHANGED <<activeAntigravityOAuthSession, listening>>
      ]_vars

\* =====================================================================
\* C21  Cancellation is terminal
\* =====================================================================

\* C21: once cancelAntigravityOAuthSession has returned true for the only
\* session created so far, a poll of that session that was suspended in the
\* completion protocol writes nothing to the credential state or the auth
\* file when it resumes, and does not report success.
C21_CancelIsTerminal ==
    [][\A n \in 1..MaxSessions :
         (/\ polls[n] > 0
          /\ created = 1
          /\ ret.op = "cancel"
          /\ ret.result = "true"
          /\ CompletionEnds(n))
            => /\ UNCHANGED <<state, authFile>>
               /\ ret'.result # "success"
      ]_vars

\* =====================================================================
\* C22  Listeners are owned by the active session
\* =====================================================================

\* C22: in every reachable state the callback listeners started and not yet
\* stopped are none when no session is active, and exactly the active
\* session's listener otherwise.
C22_ListenersOwnedByActiveSession ==
    listening = IF HasSession THEN {session.server} ELSE {}

\* =====================================================================
\* C23  The completion protocol is all-or-nothing
\* =====================================================================

\* the credential fields a login writes
CredentialFields ==
    {"accessToken", "antigravityToken", "refreshToken", "tokenExpiresAt",
     "userEmail", "userName", "cloudaicompanionProject"}

\* C23: a poll that returns status error leaves every field of the
\* credential state as it was before; a poll that returns success leaves all
\* of them set.
C23_CompletionIsAllOrNothing ==
    [][ret'.op = "poll" =>
         /\ ret'.result = "error" => \A f \in CredentialFields : state'[f] = state[f]
         /\ ret'.result = "success" =>
              /\ \A f \in CredentialFields \ {"tokenExpiresAt"} : Truthy(state'[f])
              /\ state'.tokenExpiresAt # <<>>
      ]_vars

\* =====================================================================
\* C24  Callbacks of superseded sessions are no-ops
\* =====================================================================

\* C24: when the waitForCallback promise of a session settles while that
\* session is not the active one (it was cancelled, timed out, completed or
\* replaced), the active slot is left as it is, so that a later session's
\* callback stays unset; when it settles for the active session, that session
\* held no callback before; and no step changes a callback a session holds.
C24_StaleCallbackIsNoOp ==
    [][/\ \A s \in waiting :
            (s \notin waiting' /\ (\E r \in Settlements(s) : waitForCallback_settled(s, r)))
              => /\ (~HasSession \/ session.state # s)
                      => UNCHANGED activeAntigravityOAuthSession
                 /\ (HasSession /\ session.state = s)
                      => /\ session.callback = <<>>
                         /\ activeAntigravityOAuthSession'[1].callback # <<>>
                 /\ UNCHANGED <<listening, state, authFile>>
       /\ (/\ HasSession
           /\ activeAntigravityOAuthSession' # <<>>
           /\ activeAntigravityOAuthSession'[1].state = session.state
           /\ session.callback # <<>>)
            => activeAntigravityOAuthSession'[1].callback = session.callback
      ]_vars

\* the promise of session 1 has just settled while session 2 is the active
\* one: session 2 holds no callback and still waits for its own
C24_Witness ==
    /\ ret = NoReturn
    /\ now = 0
    /\ created = 2
    /\ starts = 0
    /\ \A n \in 1..MaxSessions : polls[n] = 0
    /\ HasSession
    /\ session.server = 2
    /\ session.callback = <<>>
    /\ waiting = {generateState(2)}

\* =====================================================================
\* C25  Start and poll agree on expiry
\* =====================================================================

\* C25: at every clock value, a session that startAntigravityOAuthSession
\* treats as stale (not now < expiresAt) is answered by poll with the timeout
\* error, never with pending and never by running the completion protocol.
C25_StartAndPollAgreeOnExpiry ==
    [][\A st \in Presentable :
         (/\ Matches(st)
          /\ ~(now < session.expiresAt)
          /\ pollAntigravityOAuthSession(st))
            => /\ ret'.op = "poll"
               /\ ret'.result = "error"
               /\ ret'.message = AUTH_TIMEOUT
      ]_vars

\* =====================================================================
\* C26  The status route writes the account store exactly on success
\* =====================================================================

\* the positions of the accounts with this id
Holders(list, id) == {i \in 1..Len(list) : list[i].account.id = id}

C27_TokenFieldsAgree ==
    /\ state.antigravityToken = state.accessToken
    /\ isAuthenticated <=> (state.accessToken # UNDEFINED /\ state.accessToken # EMPTY)
    /\ ret.op = "GET /auth/status"
         => ret.value[1].authenticated
              = (state.accessToken # UNDEFINED /\ state.accessToken # EMPTY)

\* GET /status has just reported an authenticated user whose token was
\* refreshed after a login
C27_Witness ==
    /\ ret.op = "GET /auth/status"
    /\ ret.value[1].authenticated
    /\ state.accessToken = "at-3"
    /\ state.antigravityToken = "at-3"
    /\ state.userEmail = "alice@example.com"

\* =====================================================================
\* C28  Credentials of one identity do not leak into another's record
\* =====================================================================

\* the AuthData record made of the values of a POST /login body alone
AuthDataOf(body) ==
    [accessToken |-> body.accessToken,
     refreshToken |-> OrElse(body.refreshToken, EMPTY),
     expiresAt |-> <<>>,
     userEmail |-> OrElse(body.email, UNDEFINED),
     userName |-> OrElse(body.name, UNDEFINED),
     projectId |-> UNDEFINED]

\* C28 (logout): after clearAuth every credential field of the state is
\* null, tokenExpiresAt included.
C28_LogoutClearsEveryField ==
    ret.op = "POST /auth/logout" => state = NullState

\* C28 (setAuth): after setAuth(accessToken, refreshToken, email, name) the
\* record saved to auth.json holds only values given to that call, and the
\* account upserted from the state carries no expiresAt and no projectId of
\* an earlier login.
C28_SetAuthRecordIsItsOwn ==
    ret.op = "POST /auth/login" =>
        /\ \E body \in TokenBodies : authFile = <<AuthDataOf(body)>>
        /\ \A i \in 1..Len(accountManager) :
             accountManager[i].account.accessToken = state.accessToken
               => /\ accountManager[i].account.expiresAt = 0
                  /\ accountManager[i].account.projectId = UNDEFINED

\* C28: credentials of one identity never leak into the record of another,
\* neither across a logout nor across a setAuth.
C28_NoCredentialLeak ==
    C28_LogoutClearsEveryField /\ C28_SetAuthRecordIsItsOwn

\* =====================================================================
\* C29  refreshToken
\* =====================================================================

\* C29: refreshToken() returns false and leaves the credential state and the
\* auth file unchanged when no refresh token is stored or when the upstream
\* call fails; when the call succeeds it returns true, replaces accessToken
\* and antigravityToken with the new token, saves the record, and leaves
\* refreshToken, userEmail, userName and the project id unchanged; it
\* returns true or false and never throws.
C29_RefreshToken ==
    [][/\ (refreshCall = <<>> /\ ~Truthy(state.refreshToken) /\ refreshToken)
            => ret'.op = "refreshToken" /\ ret'.result = "false"
       /\ ret'.op = "refreshToken" =>
            /\ ret'.result \in {"true", "false"}
            /\ ret'.result = "false" => UNCHANGED <<state, authFile>>
            /\ ret'.result = "true" =>
                 /\ \E tokens \in RefreshResponses :
                      /\ state'.accessToken = tokens.accessToken
                      /\ state'.antigravityToken = tokens.accessToken
                      /\ authFile' # <<>>
                      /\ authFile'[1].accessToken = tokens.accessToken
                 /\ \A f \in {"refreshToken", "userEmail", "userName",
                              "cloudaicompanionProject", "tokenExpiresAt"} :
                      state'[f] = state[f]
                 /\ authFile' = <<saveAuth(state')>>
      ]_vars

\* a refresh has just succeeded for a logged-in user: the token is the new
\* one, in the state and in auth.json, and the identity is as before
C29_Witness ==
    /\ ret.op = "refreshToken"
    /\ ret.result = "true"
    /\ state.accessToken = "at-3"
    /\ state.refreshToken = "rt-1"
    /\ state.userEmail = "alice@example.com"
    /\ state.cloudaicompanionProject = "project-1"
    /\ authFile # <<>>
    /\ authFile[1].accessToken = "at-3"

====
